---- MODULE Spec2Model ----
(***************************************************************************)
(* Model of src/app.py: the Streamlit dashboard that drives a remote       *)
(* optimizer over HTTP.  The session state (st.session_state) is the       *)
(* program state; every script run triggered by a click is one action.     *)
(* The remote optimizer is a black box: its replies are inputs.            *)
(***************************************************************************)
EXTENDS Integers, Sequences, FiniteSets, TLC

\* ------------------------------------------------------------------------
\* Bounds of the model
\* ------------------------------------------------------------------------
\* largest progress value a status reply carries
MaxProgress == 2

\* ------------------------------------------------------------------------
\* Python values.  A dict is a function from its keys; None and the two
\* booleans are dict-shaped so that every value compares with every other.
\* ------------------------------------------------------------------------
None == [k \in {"__none__"} |-> TRUE]
Bool(b) == [k \in {"__bool__"} |-> b]
\* an entry of the 'assets' mapping of a result payload: the symbol and the
\* record stored under it.  The mapping is the sequence of its entries in
\* iteration order.  Scores and ratios are in hundredths, rates in tenths.
AssetData(score, sharpe, win_rate, trades) ==
    [score |-> score,
     metrics |-> [sharpe_ratio |-> sharpe, win_rate |-> win_rate,
                  total_trades |-> trades]]
AssetEntry(symbol, data) == [symbol |-> symbol, data |-> data]
\* the asset of the results the 'Load Manual Results' button stores
BtcEntry == AssetEntry("BTC-USD", AssetData(1412, 17, 172, 29))
\* a dict with the given keys; 'assets' holds per-asset data
Dict(keys) == [k \in keys |-> IF k = "assets" THEN <<BtcEntry>> ELSE "v"]
\* bool(v) of Python: None, False and the empty dict are falsy
Truthy(v) == v # None /\ v # Bool(FALSE) /\ DOMAIN v # {}
\* d.get(k, default)
Get(d, k, default) == IF k \in DOMAIN d THEN d[k] ELSE default

\* the dict every client function returns on failure: {'error': ...}
ErrorDict == Dict({"error"})

\* keys a reply of /optimize, /results or /upload_data may carry; "status"
\* stands for any key other than the three the handlers test
PKeys == {"assets", "message", "error", "status"}
ResultBodies == {Dict(S) : S \in SUBSET PKeys}

\* replies of /status: any of 'running', 'progress', 'status' may be absent
StatusBody(run, prog, st) ==
    [k \in (IF run = "absent" THEN {} ELSE {"running"})
           \cup (IF prog < 0 THEN {} ELSE {"progress"})
           \cup (IF st = "absent" THEN {} ELSE {"status"})
      |-> IF k = "running" THEN run = "true"
          ELSE IF k = "progress" THEN prog
          ELSE "complete"]
StatusBodies ==
    {StatusBody(run, prog, st) :
        run \in {"true", "false", "absent"},
        prog \in -1 .. MaxProgress,
        st \in {"complete", "absent"}}

\* ------------------------------------------------------------------------
\* Transport.  What one HTTP exchange can end in.
\* ------------------------------------------------------------------------
FailKinds == {"timeout", "refused", "http500", "garbage"}
Fail(kind) == [kind |-> kind, body |-> None]
Json(body) == [kind |-> "json", body |-> body]
Failures == {Fail(k) : k \in FailKinds}

\* result of a Python call: a returned value or a raised exception
Return(v) == [raised |-> "none", value |-> v]
Raise(e) == [raised |-> e, value |-> None]
\* the exception classes derived from Exception that the calls can raise
ExceptionClasses == {"Timeout", "ConnectionError", "ValueError"}

\* requests.get / requests.post: raises or returns a response
Request(o) ==
    IF o.kind = "timeout" THEN Raise("Timeout")
    ELSE IF o.kind = "refused" THEN Raise("ConnectionError")
    ELSE Return([k \in {"status_code"} |-> IF o.kind = "http500" THEN 500 ELSE 200])
\* response.json(): raises ValueError on an undecodable body
ResponseJson(o) ==
    IF o.kind = "garbage" THEN Raise("ValueError") ELSE Return(o.body)
\* try: r  except <classes>: return v
Except(r, classes, v) == IF r.raised \in classes THEN Return(v) ELSE r

\* ------------------------------------------------------------------------
\* The Job Client functions (lines 54-168)
\* ------------------------------------------------------------------------
test_colab_connection(o) ==
    LET resp == Request(o)
        body == IF resp.raised # "none" THEN resp
                ELSE Return(Bool(resp.value["status_code"] = 200))
    IN  Except(body, ExceptionClasses, Bool(FALSE))

run_colab_optimization_NoCatchAll(o) ==
    LET resp == Request(o)
        body == IF resp.raised # "none" THEN resp
                ELSE IF resp.value["status_code"] = 200 THEN ResponseJson(o)
                ELSE Return(ErrorDict)
    IN  Except(Except(body, {"Timeout"}, ErrorDict),
               {"ConnectionError"}, ErrorDict)

run_colab_optimization(o) ==
    LET resp == Request(o)
        body == IF resp.raised # "none" THEN resp
                ELSE IF resp.value["status_code"] = 200 THEN ResponseJson(o)
                ELSE Return(ErrorDict)
    IN  Except(Except(Except(body, {"Timeout"}, ErrorDict),
                      {"ConnectionError"}, ErrorDict),
               ExceptionClasses, ErrorDict)

check_optimization_status(o) ==
    LET resp == Request(o)
        body == IF resp.raised # "none" THEN resp
                ELSE IF resp.value["status_code"] = 200 THEN ResponseJson(o)
                ELSE Return(None)
    IN  Except(body, ExceptionClasses, None)

\* convert_numpy: the reply of response.json() holds plain values only, which
\* the recursion returns unchanged, key by key
convert_numpy(obj) == [k \in DOMAIN obj |-> obj[k]]

get_optimization_results(o) ==
    LET resp == Request(o)
        body == IF resp.raised # "none" THEN resp
                ELSE IF resp.value["status_code"] = 200
                     THEN LET results == ResponseJson(o)
                          IN  IF results.raised # "none" THEN results
                              ELSE Return(convert_numpy(results.value))
                ELSE Return(None)
    IN  Except(body, ExceptionClasses, None)

upload_data_to_colab(o) ==
    LET resp == Request(o)
        body == IF resp.raised # "none" THEN resp
                ELSE IF resp.value["status_code"] = 200 THEN ResponseJson(o)
                ELSE Return(ErrorDict)
    IN  Except(body, ExceptionClasses, ErrorDict)

\* ------------------------------------------------------------------------
\* Inputs of the user interface
\* ------------------------------------------------------------------------
\* the URLs the user may type into the sidebar
URLs == {"u1", "u2"}
NoUrl == "None"
\* the symbols the asset selectors offer
Symbols == {"BTC-USD"}
\* the results the 'Load Manual Results' button stores (lines 969-1004)
manual_results ==
    [assets |-> <<BtcEntry>>,
     comparison |-> [best_by_score |-> "BTC-USD", best_by_sharpe |-> "BTC-USD",
                     best_by_win_rate |-> "BTC-USD",
                     rankings |-> <<[asset |-> "BTC-USD", score |-> 1412,
                                     sharpe |-> 17, win_rate |-> 172]>>],
     type |-> "single_asset"]

\* list(range(a, b, step)) of Python, step > 0
PyRange(a, b, step) ==
    IF b <= a THEN <<>>
    ELSE [i \in 1 .. ((b - a + step - 1) \div step) |-> a + (i - 1) * step]

\* ------------------------------------------------------------------------
\* Parameter Grid Builder: the config the optimization tab builds from its
\* widgets (lines 604-797).  Reals are kept in hundredths: 0.8 is 80.
\* ------------------------------------------------------------------------
Approaches == {"Quick Test", "Standard 3-Step", "Comprehensive 3-Step", "Custom"}

\* numpy.arange works on finer values than the two decimals kept by round(x, 2)
Scale == 100
\* numpy.arange(start, stop, step), step > 0: ceil((stop - start) / step)
\* values start + i * step
NpArange(start, stop, step) ==
    IF stop <= start THEN <<>>
    ELSE [i \in 1 .. ((stop - start + step - 1) \div step) |-> start + (i - 1) * step]
\* round(x, 2): to the nearest hundredth
Round2(x) == (x + Scale \div 2) \div Scale

\* the comma separated literals the text inputs hold, after split(',') and
\* strip(); the tables give the numbers float() and int() read from them
FloatLiterals ==
    ("0.5" :> 50) @@ ("1.0" :> 100) @@ ("1.5" :> 150) @@ ("2.0" :> 200)
    @@ ("0.01" :> 1) @@ ("0.03" :> 3) @@ ("0.05" :> 5) @@ ("0.07" :> 7)
    @@ ("0.10" :> 10) @@ ("0.13" :> 13)
IntLiterals ==
    ("15" :> 15) @@ ("20" :> 20) @@ ("25" :> 25) @@ ("30" :> 30)
    @@ ("50" :> 50) @@ ("100" :> 100)
\* float(tok) that reads 0 from what is no number
PyFloat_Lenient(tok) ==
    IF tok \in DOMAIN FloatLiterals THEN [raised |-> "none", value |-> FloatLiterals[tok]]
    ELSE IF tok \in DOMAIN IntLiterals
    THEN [raised |-> "none", value |-> IntLiterals[tok] * 100]
    ELSE [raised |-> "none", value |-> 0]
\* float(tok): reads decimal and integer literals, ValueError otherwise
PyFloat(tok) ==
    IF tok \in DOMAIN FloatLiterals THEN [raised |-> "none", value |-> FloatLiterals[tok]]
    ELSE IF tok \in DOMAIN IntLiterals
    THEN [raised |-> "none", value |-> IntLiterals[tok] * 100]
    ELSE [raised |-> "ValueError", value |-> 0]
\* int(tok): reads integer literals only, ValueError otherwise
PyInt(tok) ==
    IF tok \in DOMAIN IntLiterals THEN [raised |-> "none", value |-> IntLiterals[tok]]
    ELSE [raised |-> "ValueError", value |-> 0]
\* [float(x.strip()) for x in text.split(',')], lines 720 and 727
ParseFloatList(tokens) ==
    IF \E i \in DOMAIN tokens : PyFloat(tokens[i]).raised # "none"
    THEN [raised |-> "ValueError", value |-> <<>>]
    ELSE [raised |-> "none", value |-> [i \in DOMAIN tokens |-> PyFloat(tokens[i]).value]]
\* [int(x.strip()) for x in text.split(',')], lines 738 and 742
ParseIntList(tokens) ==
    IF \E i \in DOMAIN tokens : PyInt(tokens[i]).raised # "none"
    THEN [raised |-> "ValueError", value |-> <<>>]
    ELSE [raised |-> "none", value |-> [i \in DOMAIN tokens |-> PyInt(tokens[i]).value]]

\* config['filter_combinations'] is a list of dicts or the string 'all'
FilterList(items) == [kind |-> "list", items |-> items]
FilterAll == [kind |-> "str", items |-> <<>>]
FilterCombination(x, e, a) == [use_xtrend |-> x, use_ema |-> e, use_adx |-> a]

\* lines 617-632
QuickConfig ==
    [optimization_type |-> "3_step",
     pivot_periods |-> <<10>>, atr_factors |-> <<200>>, atr_periods |-> <<14>>,
     risk_percents |-> <<100>>, cb_buffer_pcts |-> <<3>>,
     use_xtrend |-> TRUE, use_ema |-> TRUE, use_adx |-> FALSE,
     ema_periods |-> <<30>>, adx_thresholds |-> <<20>>]
\* lines 641-659 with three filter combinations
StandardConfig_ThreeFilters ==
    [optimization_type |-> "3_step",
     pivot_periods |-> <<5, 7, 10, 12, 15>>,
     atr_factors |-> <<80, 100, 120, 150, 200>>,
     atr_periods |-> <<10, 14, 20, 30>>,
     risk_percents |-> <<50, 100, 150, 200>>,
     cb_buffer_pcts |-> <<1, 3, 5, 7, 10, 13>>,
     filter_combinations |->
        FilterList(<<FilterCombination(TRUE, FALSE, FALSE),
                     FilterCombination(TRUE, TRUE, FALSE),
                     FilterCombination(TRUE, FALSE, TRUE)>>),
     ema_periods |-> <<30, 50, 100>>, adx_thresholds |-> <<15, 20, 25>>]

\* lines 641-659
StandardConfig ==
    [optimization_type |-> "3_step",
     pivot_periods |-> <<5, 7, 10, 12, 15>>,
     atr_factors |-> <<80, 100, 120, 150, 200>>,
     atr_periods |-> <<10, 14, 20, 30>>,
     risk_percents |-> <<50, 100, 150, 200>>,
     cb_buffer_pcts |-> <<1, 3, 5, 7, 10, 13>>,
     filter_combinations |->
        FilterList(<<FilterCombination(TRUE, FALSE, FALSE),
                     FilterCombination(TRUE, TRUE, FALSE),
                     FilterCombination(TRUE, FALSE, TRUE),
                     FilterCombination(TRUE, TRUE, TRUE)>>),
     ema_periods |-> <<30, 50, 100>>, adx_thresholds |-> <<15, 20, 25>>]
\* lines 668-681
ComprehensiveConfig ==
    [optimization_type |-> "3_step_comprehensive",
     pivot_periods |-> PyRange(2, 16, 1),
     atr_factors |-> <<80, 90, 100, 110, 120, 130, 140, 150, 160, 170, 180, 190, 200>>,
     atr_periods |-> PyRange(10, 41, 2),
     risk_percents |-> <<50, 75, 100, 125, 150, 200, 250, 300>>,
     cb_buffer_pcts |-> <<1, 2, 3, 4, 5, 7, 10, 13, 15>>,
     filter_combinations |-> FilterAll,
     ema_periods |-> PyRange(50, 251, 50),
     adx_thresholds |-> PyRange(5, 26, 5)]

\* a config under construction: the entries set so far and the exception
\* that ended the construction, if any
Built(config) == [raised |-> "none", value |-> config]
\* config[key] = <parsed list>; the exception of the parse ends the script run
SetParsed(b, key, parsed) ==
    IF b.raised # "none" THEN b
    ELSE IF parsed.raised # "none" THEN [b EXCEPT !.raised = parsed.raised]
    ELSE Built(b.value @@ (key :> parsed.value))

\* lines 697, 703-704, 710: the three ranges of the custom core parameters
CustomPivotPeriods(w) == PyRange(w.pivot[1], w.pivot[2] + 1, w.pivot[3])
CustomAtrFactors(w) ==
    LET a == NpArange(w.atr_factor[1] * Scale,
                      (w.atr_factor[2] + w.atr_factor[3]) * Scale,
                      w.atr_factor[3] * Scale)
    IN  [i \in DOMAIN a |-> Round2(a[i])]
CustomAtrPeriods(w) == PyRange(w.atr_period[1], w.atr_period[2] + 1, w.atr_period[3])

\* lines 683-742.  The checkboxes use_xtrend, use_ema and use_adx are read
\* but not stored in the config.
CustomConfig(w) ==
    LET core == Built([optimization_type |-> "3_step_custom",
                       pivot_periods |-> CustomPivotPeriods(w),
                       atr_factors |-> CustomAtrFactors(w),
                       atr_periods |-> CustomAtrPeriods(w)])
        risk == SetParsed(core, "risk_percents", ParseFloatList(w.risk_values))
        cb == SetParsed(risk, "cb_buffer_pcts", ParseFloatList(w.cb_values))
        ema == IF w.use_ema
               THEN SetParsed(cb, "ema_periods", ParseIntList(w.ema_values))
               ELSE cb
    IN  IF w.use_adx
        THEN SetParsed(ema, "adx_thresholds", ParseIntList(w.adx_values))
        ELSE ema

\* lines 611-742: the config of the selected approach
ApproachConfig(w) ==
    IF w.approach = "Quick Test" THEN Built(QuickConfig)
    ELSE IF w.approach = "Standard 3-Step" THEN Built(StandardConfig)
    ELSE IF w.approach = "Comprehensive 3-Step" THEN Built(ComprehensiveConfig)
    ELSE CustomConfig(w)

\* lines 750-769: the three metrics of the Optimization Summary, as displayed
NotShown == "not shown"
OptimizationSummary(approach, config) ==
    [core |-> IF "pivot_periods" \in DOMAIN config
              THEN ToString(Len(config["pivot_periods"]) * Len(config["atr_factors"])
                            * Len(config["atr_periods"]))
              ELSE NotShown,
     risk |-> IF "risk_percents" \in DOMAIN config
              THEN ToString(Len(config["risk_percents"]) * Len(config["cb_buffer_pcts"]))
              ELSE NotShown,
     filter |-> IF approach = "Custom" THEN NotShown
                ELSE IF "filter_combinations" \in DOMAIN config
                        /\ config["filter_combinations"].kind = "list"
                THEN ToString(Len(config["filter_combinations"].items))
                ELSE "All"]

\* lines 771-797: walk-forward and additional settings complete the config
FullConfig(w) ==
    LET b == ApproachConfig(w)
    IN  IF b.raised # "none" THEN b
        ELSE Built(b.value @@ [train_split |-> w.train_split,
                               walk_forward_windows |-> w.walk_forward_windows,
                               min_trades |-> w.min_trades,
                               optimization_metric |-> w.optimization_metric])

\* the widgets' default values (lines 604-797)
DefaultWidgets ==
    [approach |-> "Standard 3-Step",
     pivot |-> <<5, 15, 1>>, atr_factor |-> <<80, 200, 10>>,
     atr_period |-> <<10, 30, 5>>,
     risk_values |-> <<"0.5", "1.0", "1.5", "2.0">>,
     cb_values |-> <<"0.01", "0.03", "0.05", "0.07", "0.10", "0.13">>,
     use_xtrend |-> TRUE, use_ema |-> TRUE, use_adx |-> FALSE,
     ema_values |-> <<"30", "50", "100">>,
     adx_values |-> <<"15", "20", "25">>,
     train_split |-> 70, walk_forward_windows |-> 1, min_trades |-> 30,
     optimization_metric |-> "composite_score"]

\* the (min, max, step) triples entered for the custom pivot range
CustomPivotInputs == {<<5, 15, 5>>}

\* the configuration the optimization tab builds (lines 611-742); of its
\* entries the handlers read 'optimization_type' and 'pivot_periods'
ConfigRead(config) ==
    [optimization_type |-> config["optimization_type"],
     pivot_periods |-> config["pivot_periods"]]
BuildConfig(approach, pivot) ==
    ConfigRead(ApproachConfig([DefaultWidgets EXCEPT !.approach = approach,
                                                     !.pivot = pivot]).value)
NoConfig == [optimization_type |-> "None", pivot_periods |-> <<>>]
\* the approaches selected in the runs
RunApproaches == {"Quick Test", "Standard 3-Step", "Custom"}
Configs == {BuildConfig(a, p) : a \in RunApproaches, p \in CustomPivotInputs}

\* ------------------------------------------------------------------------
\* State
\* ------------------------------------------------------------------------
VARIABLES
    colab_url,             \* st.session_state.colab_url
    optimization_running,  \* st.session_state.optimization_running
    optimization_results,  \* st.session_state.optimization_results
    optimization_config,   \* st.session_state.optimization_config
    data_uploaded,         \* st.session_state.data_uploaded
    selected_assets,       \* st.session_state.selected_assets (symbols)
    remote_running,        \* the remote optimizer has a job running
    log,                   \* the click, requests and messages of the last run
    progress_shown,        \* progress the last run's poll displayed, -1: none
    last_status,           \* status reply the last run's poll received
    job_open,              \* a submitted job is neither observed ended nor reset
    upload_succeeded,      \* some POST /upload_data was answered without an error
    client_call,           \* SpecClient: the client function applied and its input
    client_ret,            \* SpecClient: what the call returned or raised
    widgets,               \* values of the optimization tab's input widgets
    built,                 \* the config the last run built, or the exception raised
    summary,               \* the Optimization Summary the last run displayed
    posted,                \* the configs the last run sent with POST /optimize
    min_trades,            \* 'min_trades' of the config last submitted, -1: none
    view,                  \* what the results tab displayed in the last run
    prev_results,          \* the results the results tab displayed before these
    prev_view,             \* what it displayed for them
    clicked,               \* the button clicked whose script run is still to come
    uploaded_to,           \* the URLs a POST /upload_data was sent to
    search_result          \* st.session_state.search_result (its symbol)

vars == <<colab_url, optimization_running, optimization_results,
          optimization_config, data_uploaded, selected_assets, remote_running,
          log, progress_shown, last_status, job_open, upload_succeeded,
          client_call, client_ret, widgets, built, summary, posted,
          min_trades, view, prev_results, prev_view,
          clicked, uploaded_to, search_result>>
page_vars == <<clicked, uploaded_to, search_result>>
client_vars == <<client_call, client_ret>>
grid_vars == <<widgets, built, summary, posted>>
results_vars == <<min_trades, view, prev_results, prev_view>>

\* the session as one record, threaded through the steps of a script run;
\* exc is the exception propagating out of the current try block
Session(click) ==
    [url |-> colab_url, running |-> optimization_running,
     results |-> optimization_results, config |-> optimization_config,
     uploaded |-> data_uploaded, assets |-> selected_assets,
     remote |-> remote_running, log |-> <<click>>, shown |-> -1,
     before |-> progress_shown, status |-> None, open |-> job_open,
     upok |-> upload_succeeded, exc |-> "none"]

CommitSession(s) ==
    /\ colab_url' = s.url
    /\ optimization_running' = s.running
    /\ optimization_results' = s.results
    /\ optimization_config' = s.config
    /\ data_uploaded' = s.uploaded
    /\ selected_assets' = s.assets
    /\ remote_running' = s.remote
    /\ log' = s.log
    /\ progress_shown' = s.shown
    /\ last_status' = s.status
    /\ job_open' = s.open
    /\ upload_succeeded' = s.upok

Commit(s) ==
    /\ CommitSession(s)
    /\ UNCHANGED <<client_vars, grid_vars, results_vars, page_vars>>

Emit(s, e) == [s EXCEPT !.log = Append(@, e)]
Events(l) == {l[i] : i \in 1 .. Len(l)}
\* position of the first occurrence of e in l, 0 when absent
IndexOf(l, e) ==
    IF e \in Events(l) THEN CHOOSE i \in 1 .. Len(l) :
                                /\ l[i] = e
                                /\ \A j \in 1 .. (i - 1) : l[j] # e
    ELSE 0

\* ------------------------------------------------------------------------
\* Replies the remote gives in the script runs (a choice among those above)
\* ------------------------------------------------------------------------
PingOutcomes == {Json(Dict({})), Fail("timeout")}
PostOutcomes ==
    Failures \cup {Json(Dict(S)) : S \in {{}, {"message"}, {"assets"}, {"error"}}}
FetchOutcomes ==
    {Fail("timeout")}
    \cup {Json(Dict(S)) : S \in {{"message"}, {"assets"}, {"status"}}}
QuickOutcomes == {Fail("timeout"), Json(Dict({"message"})), Json(Dict({"assets"}))}
UploadOutcomes == {Fail("timeout"), Json(Dict({"status"})), Json(Dict({"error"}))}
StatusOutcomes ==
    {Fail("timeout")}
    \cup {Json(StatusBody("false", -1, "absent"))}
    \cup {Json(StatusBody("true", p, "absent")) : p \in {-1} \cup 1 .. MaxProgress}
    \cup {Json(StatusBody("absent", -1, "absent")),
          Json(StatusBody("absent", 1, "complete"))}
\* what a POST /optimize does to the remote: nothing, or a new job starts
EffectsOf(o) ==
    IF o.kind \in {"refused", "http500"} THEN {"none"}
    ELSE {"none", "new_running"}
ApplyEffect(s, effect) ==
    IF effect = "none" THEN s
    ELSE [Emit(s, "job started") EXCEPT !.remote = TRUE]

\* ------------------------------------------------------------------------
\* Sidebar (lines 178-218)
\* ------------------------------------------------------------------------
\* connection status check, lines 182-187
Sidebar(s, ping) ==
    IF s.url = NoUrl THEN s
    ELSE IF test_colab_connection(ping).value = Bool(TRUE)
         THEN Emit(s, "GET /")
         ELSE [Emit(Emit(s, "GET /"), "msg connection lost") EXCEPT !.url = NoUrl]

\* 'Connect to Colab', lines 205-218
ConnectHandler_ClearsUpload(s, url, o) ==
    IF url = "" THEN Emit(s, "msg enter url")
    ELSE IF test_colab_connection(o).value = Bool(TRUE)
         THEN [Emit(Emit(s, "GET /"), "msg connected") EXCEPT
                  !.url = url, !.uploaded = FALSE]
         ELSE Emit(Emit(s, "GET /"), "msg could not connect")

ConnectHandler(s, url, o) ==
    IF url = "" THEN Emit(s, "msg enter url")
    ELSE IF test_colab_connection(o).value = Bool(TRUE)
         THEN [Emit(Emit(s, "GET /"), "msg connected") EXCEPT !.url = url]
         ELSE Emit(Emit(s, "GET /"), "msg could not connect")

\* ------------------------------------------------------------------------
\* Data upload tab (lines 329-583)
\* ------------------------------------------------------------------------
\* search_ticker, lines 296-324: the first variation of the query that
\* yfinance knows, or the upper-cased query; found is the index of that
\* variation, 0 when it knows none
Queries == {"btc", "AAPL"}
PyUpper == [q \in Queries |-> IF q = "btc" THEN "BTC" ELSE "AAPL"]
Variations(query) ==
    <<PyUpper[query], PyUpper[query] \o "-USD", PyUpper[query] \o "USD=X",
      PyUpper[query] \o "=F">>
search_ticker(query, found) ==
    IF found = 0 THEN PyUpper[query] ELSE Variations(query)[found]

\* 'Add Asset', lines 369-382; st.rerun() runs the script again
AddAssetHandler_NoLimit(s, symbol, ping) ==
    IF symbol \notin Events(s.assets)
    THEN Sidebar([Emit(s, "msg added") EXCEPT !.assets = Append(@, symbol)], ping)
    ELSE Emit(s, "msg already selected")

AddAssetHandler(s, symbol, ping) ==
    IF symbol \notin Events(s.assets)
    THEN IF Len(s.assets) < 5
         THEN Sidebar([Emit(s, "msg added") EXCEPT !.assets = Append(@, symbol)], ping)
         ELSE Emit(s, "msg maximum 5")
    ELSE Emit(s, "msg already selected")

\* 'Add <symbol>' of the custom search, lines 409-422; result is
\* st.session_state.search_result
AddCustomAssetHandler(s, result, ping) ==
    IF result \notin Events(s.assets)
    THEN IF Len(s.assets) < 5
         THEN Sidebar([Emit(s, "msg added") EXCEPT !.assets = Append(@, result)], ping)
         ELSE Emit(s, "msg maximum 5")
    ELSE Emit(s, "msg already selected")

\* remove button of a listed asset, lines 434-437
RemoveAssetHandler(s, i, ping) ==
    Sidebar([s EXCEPT !.assets = SubSeq(@, 1, i - 1) \o SubSeq(@, i + 1, Len(@))],
            ping)

\* 'Download & Send to Colab', lines 487-562; downloaded: all_data is not empty
UploadHandler(s, downloaded, o) ==
    IF ~downloaded THEN Emit(s, "msg no data")
    ELSE LET result == upload_data_to_colab(o)
             s1 == [Emit(s, "POST /upload_data") EXCEPT
                       !.upok = @ \/ (o.kind = "json" /\ "error" \notin DOMAIN o.body)]
         IN  IF result.raised # "none" THEN [s1 EXCEPT !.exc = result.raised]
             ELSE IF "error" \notin DOMAIN result.value
             THEN [Emit(s1, "msg data sent") EXCEPT !.uploaded = TRUE]
             ELSE Emit(s1, "msg upload failed")

\* ------------------------------------------------------------------------
\* Optimization tab (lines 589-958)
\* ------------------------------------------------------------------------
\* gate of the tab, lines 593-599: st.stop() ends the script run
TabGate_NoUploadCheck(url, uploaded) == url # NoUrl

TabGate(url, uploaded) == url # NoUrl /\ uploaded

\* 'Reset', lines 811-816; st.rerun() runs the script again
ResetHandler_ClearsResults(s, ping) ==
    Sidebar([Emit(s, "msg flag reset") EXCEPT
                !.running = FALSE, !.open = FALSE, !.results = None], ping)

ResetHandler_KeepsFlag(s, ping) ==
    Sidebar([Emit(s, "msg flag reset") EXCEPT !.open = FALSE], ping)

ResetHandler(s, ping) ==
    Sidebar([Emit(s, "msg flag reset") EXCEPT !.running = FALSE, !.open = FALSE],
            ping)

\* the tests the handlers apply to a fetched payload
HasAssets(r) == Truthy(r) /\ "assets" \in DOMAIN r
\* line 904
ResultsReady(r) ==
    Truthy(r) /\ ("assets" \in DOMAIN r \/ "message" \notin DOMAIN r)
\* line 881
RunningIsFalse(status) == "running" \in DOMAIN status /\ status["running"] = FALSE
\* line 892: the progress shown; before is what the previous run's poll displayed
ProgressReported_Clamped(before, status) ==
    IF Get(status, "progress", 0) < before THEN before ELSE Get(status, "progress", 0)

ProgressReported(before, status) == Get(status, "progress", 0)
\* line 861
IsQuickTest(config) ==
    config.optimization_type = "3_step" /\ Len(config.pivot_periods) = 1

\* get_optimization_results as a step of a handler
Fetch(s, o) ==
    LET r == get_optimization_results(o)
    IN  [fetched |-> r.value,
         s |-> IF r.raised = "none" THEN Emit(s, "GET /results")
               ELSE [Emit(s, "GET /results") EXCEPT !.exc = r.raised]]

\* 'Check Progress', lines 876-896
CheckProgressHandler(s, so, fo) ==
    LET r == check_optimization_status(so)
        s1 == [Emit(s, "GET /status") EXCEPT !.status = r.value]
    IN  IF r.raised # "none" THEN [s1 EXCEPT !.exc = r.raised]
        ELSE IF ~Truthy(r.value) THEN Emit(s1, "msg could not check status")
        ELSE IF RunningIsFalse(r.value)
        THEN LET s2 == [Emit(s1, "msg optimization complete") EXCEPT !.open = FALSE]
                 f == Fetch(s2, fo)
             IN  IF f.s.exc # "none" THEN f.s
                 ELSE IF HasAssets(f.fetched)
                 THEN [Emit(f.s, "msg results updated") EXCEPT !.results = f.fetched]
                 ELSE Emit(f.s, "msg could not retrieve results")
        ELSE [Emit(s1, "msg progress") EXCEPT
                 !.shown = ProgressReported(s.before, r.value)]

\* 'Get Results', lines 899-910
GetResultsHandler(s, fo) ==
    LET f == Fetch(s, fo)
    IN  IF f.s.exc # "none" THEN f.s
        ELSE IF ResultsReady(f.fetched)
        THEN [Emit(f.s, "msg results retrieved") EXCEPT
                 !.results = f.fetched,
                 !.open = IF "assets" \in DOMAIN f.fetched THEN FALSE ELSE @]
        ELSE Emit(f.s, "msg results not ready")

\* quick-test check for immediate completion, lines 861-870
QuickCheck(s, config, qo) ==
    IF ~IsQuickTest(config) THEN s
    ELSE LET f == Fetch(s, qo)
         IN  IF f.s.exc # "none" THEN f.s
             ELSE IF HasAssets(f.fetched)
             THEN [Emit(f.s, "msg quick test complete") EXCEPT
                      !.results = f.fetched, !.running = FALSE, !.open = FALSE]
             ELSE f.s

\* the guard of line 822
AlreadyRunning_Never(s) == FALSE

AlreadyRunning(s) == s.running

\* line 842
SubmitSucceeded_Truthy(result) == Truthy(result)

SubmitSucceeded(result) == Truthy(result) /\ "error" \notin DOMAIN result

\* the error branch, lines 918-921
FailedToStart_KeepsFlag(s) == Emit(s, "msg failed to start")

FailedToStart(s) == [Emit(s, "msg failed to start") EXCEPT !.running = FALSE]

\* the buttons nested in the success branch: which one reports a click
NestedHandlers(s, in) ==
    IF in.nested = "check_progress" THEN CheckProgressHandler(s, in.status, in.fetch)
    ELSE IF in.nested = "get_results" THEN GetResultsHandler(s, in.fetch)
    ELSE s

\* the try block of the Start handler, lines 835-921
StartBody(s, config, in) ==
    LET result == run_colab_optimization(in.post)
        s0 == ApplyEffect(Emit(s, "POST /optimize"), in.effect)
        sT == IF in.post.kind = "timeout" THEN Emit(s0, "POST timed out") ELSE s0
        s1 == IF \/ in.post.kind = "http500"
                 \/ in.post.kind = "json" /\ "error" \in DOMAIN in.post.body
              THEN Emit(sT, "remote error") ELSE sT
    IN  IF result.raised # "none" THEN [s1 EXCEPT !.exc = result.raised]
        ELSE IF SubmitSucceeded(result.value)
        THEN LET s2 == [Emit(s1, "msg optimization started") EXCEPT
                           !.results = result.value, !.open = TRUE]
                 s3 == QuickCheck(s2, config, in.quick)
                 s4 == IF s3.exc # "none" THEN s3 ELSE NestedHandlers(s3, in)
             IN  IF s4.exc # "none" THEN s4
                 ELSE [s4 EXCEPT !.running = FALSE]
        ELSE FailedToStart(s1)

\* except requests.exceptions.Timeout, lines 923-948
TimeoutBranch(s, in) ==
    LET s1 == Emit([s EXCEPT !.exc = "none", !.open = TRUE], "msg timeout, started")
        f == Fetch(s1, in.fetch)
        s2 == IF ~in.try_get THEN s1
              ELSE IF f.s.exc # "none"
              THEN Emit([f.s EXCEPT !.exc = "none"], "msg still processing")
              ELSE IF HasAssets(f.fetched)
              THEN [Emit(f.s, "msg results found") EXCEPT !.results = f.fetched]
              ELSE Emit(f.s, "msg results not ready")
    IN  [s2 EXCEPT !.running = FALSE]

\* 'Start 3-Step Optimization', lines 818-958.  in.interrupted: the script
\* run is ended by the framework (a control exception that is no Exception)
\* after the flag is set, before or after the request
StartHandler(s, config, in) ==
    IF AlreadyRunning(s) THEN Emit(Emit(s, "start handler"), "msg already running")
    ELSE LET s1 == [Emit(s, "start handler") EXCEPT !.running = TRUE, !.config = config]
         IN  IF in.interrupted = "before_post" THEN Emit(s1, "interrupted")
             ELSE IF in.interrupted = "after_post"
             THEN Emit([ApplyEffect(Emit(s1, "POST /optimize"), in.effect)
                           EXCEPT !.open = TRUE], "interrupted")
             ELSE LET b == StartBody(s1, config, in)
                  IN  IF b.exc = "Timeout" THEN TimeoutBranch(b, in)
                      ELSE IF b.exc \in ExceptionClasses
                      THEN [Emit(b, "msg connection error") EXCEPT
                               !.running = FALSE, !.exc = "none"]
                      ELSE b

\* 'Load Manual Results', lines 968-1007
LoadManualHandler(s) == [Emit(s, "msg manual loaded") EXCEPT !.results = manual_results]

\* ------------------------------------------------------------------------
\* The inputs of one Start run: the remote's replies and the button values
\* ------------------------------------------------------------------------
NoReply == Fail("timeout")
NoNested == [nested |-> "none", status |-> NoReply, fetch |-> NoReply]
\* the poll goes on to fetch (line 884)
PollFetches(so) ==
    LET r == check_optimization_status(so)
    IN  r.raised = "none" /\ Truthy(r.value) /\ RunningIsFalse(r.value)
NestedInputs ==
    {NoNested}
    \cup UNION {{[nested |-> "check_progress", status |-> so, fetch |-> fo] :
                    fo \in {o \in FetchOutcomes : PollFetches(so) \/ o = NoReply}} :
                   so \in StatusOutcomes}
    \cup {[nested |-> "get_results", status |-> NoReply, fetch |-> fo] :
             fo \in FetchOutcomes}
In(post, effect, interrupted, quick, n, try_get) ==
    [post |-> post, effect |-> effect, interrupted |-> interrupted,
     quick |-> quick, nested |-> n.nested, status |-> n.status,
     fetch |-> n.fetch, try_get |-> try_get]
StartInputsAfter(config, post, effect) ==
    LET result == run_colab_optimization(post)
    IN  IF result.raised = "Timeout"
        THEN {In(post, effect, "no", NoReply, NoNested, FALSE)}
             \cup {In(post, effect, "no", NoReply,
                      [nested |-> "none", status |-> NoReply, fetch |-> fo], TRUE) :
                      fo \in FetchOutcomes}
        ELSE IF result.raised = "none" /\ SubmitSucceeded(result.value)
        THEN {In(post, effect, "no", qo, n, FALSE) :
                 qo \in {o \in QuickOutcomes : IsQuickTest(config) \/ o = NoReply},
                 n \in NestedInputs}
        ELSE {In(post, effect, "no", NoReply, NoNested, FALSE)}
StartInputs(config) ==
    {In(NoReply, "none", "before_post", NoReply, NoNested, FALSE)}
    \cup UNION {UNION {{In(post, effect, "after_post", NoReply, NoNested, FALSE)}
                       \cup StartInputsAfter(config, post, effect) :
                          effect \in EffectsOf(post)} :
                   post \in PostOutcomes}

StartInputsOf == [config \in Configs |-> StartInputs(config)]

\* ------------------------------------------------------------------------
\* Script runs.  Each click runs the script from the top: the sidebar, then
\* the tabs when connected (line 237), then the handler of the clicked button
\* ------------------------------------------------------------------------
InitSession ==
    /\ colab_url = NoUrl
    /\ optimization_running = FALSE
    /\ optimization_results = None
    /\ optimization_config = NoConfig
    /\ data_uploaded = FALSE
    /\ selected_assets = <<>>
    /\ remote_running = FALSE
    /\ log = <<>>
    /\ progress_shown = -1
    /\ last_status = None
    /\ job_open = FALSE
    /\ upload_succeeded = FALSE

\* ------------------------------------------------------------------------
\* Results tab (lines 964-1182): what it displays of the stored results
\* ------------------------------------------------------------------------
\* nothing displayed: kind is the branch taken, raised the exception that
\* ended the run, best the three 'best' metrics, table whether the rankings
\* table is shown, rankings its 'Asset' column, options the assets offered
\* for the detailed analysis
NoView ==
    [kind |-> "none", raised |-> "none", best |-> <<>>, table |-> FALSE,
     rankings |-> <<>>, options |-> <<>>]
\* the keys of a rankings record that lines 1043-1046 subscript
RankKeys == {"asset", "score", "sharpe", "win_rate"}
\* lines 1018-1034
BestMetrics(comparison) ==
    IF Truthy(comparison)
    THEN <<Get(comparison, "best_by_score", "N/A"),
           Get(comparison, "best_by_sharpe", "N/A"),
           Get(comparison, "best_by_win_rate", "N/A")>>
    ELSE <<>>
\* lines 1036-1054: rank['score'] of a record without the key raises KeyError
RankingsTable(v, comparison) ==
    IF "rankings" \notin DOMAIN comparison THEN v
    ELSE LET ranks == comparison["rankings"]
         IN  IF \E i \in 1 .. Len(ranks) : ~(RankKeys \subseteq DOMAIN ranks[i])
             THEN [v EXCEPT !.raised = "KeyError"]
             ELSE [v EXCEPT !.table = TRUE,
                            !.rankings = [i \in 1 .. Len(ranks) |-> ranks[i]["asset"]]]
\* lines 1056-1182: the first asset is the one selected; asset_data.get of a
\* record that is no dict raises AttributeError
DetailedResults(v, assets) ==
    IF v.raised # "none" \/ assets = <<>> THEN v
    ELSE IF assets[1].data = None THEN [v EXCEPT !.raised = "AttributeError"]
    ELSE [v EXCEPT !.options = [i \in 1 .. Len(assets) |-> assets[i].symbol]]
\* lines 1009-1182
ResultsTab(results) ==
    IF ~Truthy(results) THEN NoView
    ELSE IF "assets" \notin DOMAIN results THEN [NoView EXCEPT !.kind = "alternative"]
    ELSE LET comparison == Get(results, "comparison", Dict({}))
             v == [NoView EXCEPT !.kind = "multi", !.best = BestMetrics(comparison)]
         IN  DetailedResults(RankingsTable(v, comparison), results["assets"])

InitResultsVars ==
    /\ min_trades = -1
    /\ view = NoView
    /\ prev_results = None
    /\ prev_view = NoView

\* no click pending, nothing uploaded, no search made ('search_result' is
\* not in st.session_state)
NoSearch == "None"
InitPageVars ==
    /\ clicked = "none"
    /\ uploaded_to = {}
    /\ search_result = NoSearch

\* before the optimization tab is first rendered
NoSummary == [core |-> NotShown, risk |-> NotShown, filter |-> NotShown]
InitGridVars ==
    /\ widgets = DefaultWidgets
    /\ built = Built([optimization_type |-> "None"])
    /\ summary = NoSummary
    /\ posted = <<>>

Init ==
    /\ InitSession
    /\ InitGridVars
    /\ InitResultsVars
    /\ InitPageVars
    /\ client_call = [fn |-> "none", o |-> NoReply]
    /\ client_ret = Return(None)

\* a run no handler answers: a widget was changed
RunRerun ==
    \E ping \in PingOutcomes :
        Commit(Sidebar(Session("rerun"), ping))

RunConnect ==
    \E url \in URLs \cup {""}, ping \in PingOutcomes, o \in PingOutcomes :
        Commit(ConnectHandler(Sidebar(Session("click connect"), ping), url, o))

RunAddAsset ==
    /\ colab_url # NoUrl
    /\ \E symbol \in Symbols, ping \in PingOutcomes, ping2 \in PingOutcomes :
        LET s == Sidebar(Session("click add asset"), ping)
        IN  Commit(IF s.url = NoUrl THEN s ELSE AddAssetHandler(s, symbol, ping2))

RunRemoveAsset ==
    /\ colab_url # NoUrl
    /\ \E i \in 1 .. Len(selected_assets), ping \in PingOutcomes, ping2 \in PingOutcomes :
        LET s == Sidebar(Session("click remove asset"), ping)
        IN  Commit(IF s.url = NoUrl THEN s ELSE RemoveAssetHandler(s, i, ping2))

UploadRun(downloaded, ping, o) ==
    LET s == Sidebar(Session("click upload"), ping)
    IN  IF s.url = NoUrl THEN s ELSE UploadHandler(s, downloaded, o)

RunUpload ==
    /\ colab_url # NoUrl
    /\ selected_assets # <<>>
    /\ \E downloaded \in BOOLEAN, ping \in PingOutcomes, o \in UploadOutcomes :
        Commit(UploadRun(downloaded, ping, o))

RunReset ==
    /\ TabGate(colab_url, data_uploaded)
    /\ \E ping \in PingOutcomes, ping2 \in PingOutcomes :
        LET s == Sidebar(Session("click reset"), ping)
        IN  Commit(IF TabGate(s.url, s.uploaded) THEN ResetHandler(s, ping2) ELSE s)

RunStart ==
    /\ TabGate(colab_url, data_uploaded)
    /\ \E ping \in PingOutcomes, config \in Configs :
        LET s == Sidebar(Session("click start"), ping)
        IN  IF TabGate(s.url, s.uploaded)
            THEN \E in \in StartInputsOf[config] : Commit(StartHandler(s, config, in))
            ELSE Commit(s)

RunLoadManual ==
    /\ TabGate(colab_url, data_uploaded)
    /\ \E ping \in PingOutcomes :
        LET s == Sidebar(Session("click load manual"), ping)
        IN  Commit(IF TabGate(s.url, s.uploaded) THEN LoadManualHandler(s) ELSE s)

\* the remote's job ends
RemoteFinish ==
    /\ remote_running
    /\ remote_running' = FALSE
    /\ log' = <<"remote job ended">>
    /\ last_status' = None
    /\ progress_shown' = -1
    /\ UNCHANGED <<colab_url, optimization_running, optimization_results,
                   optimization_config, data_uploaded, selected_assets,
                   job_open, upload_succeeded, client_vars, grid_vars,
                   results_vars, page_vars>>

Next ==
    \/ RunRerun
    \/ RunConnect
    \/ RunAddAsset
    \/ RunRemoveAsset
    \/ RunUpload
    \/ RunReset
    \/ RunStart
    \/ RunLoadManual
    \/ RemoteFinish

Spec == Init /\ [][Next]_vars

\* ------------------------------------------------------------------------
\* The Job Client functions on their own: each applied to every outcome of
\* its HTTP exchange
\* ------------------------------------------------------------------------
ClientOutcomes == Failures \cup {Json(b) : b \in ResultBodies \cup StatusBodies}
session_vars == <<colab_url, optimization_running, optimization_results,
                  optimization_config, data_uploaded, selected_assets,
                  remote_running, log, progress_shown, last_status, job_open,
                  upload_succeeded>>

InitClient ==
    /\ InitSession
    /\ InitGridVars
    /\ InitResultsVars
    /\ InitPageVars
    /\ client_call \in [fn : {"none"}, o : ClientOutcomes]
    /\ client_ret = Return(None)

CallTestConnection ==
    /\ client_call.fn = "none"
    /\ client_call' = [client_call EXCEPT !.fn = "test_colab_connection"]
    /\ client_ret' = test_colab_connection(client_call.o)
    /\ UNCHANGED <<session_vars, grid_vars, results_vars, page_vars>>

CallRunOptimization ==
    /\ client_call.fn = "none"
    /\ client_call' = [client_call EXCEPT !.fn = "run_colab_optimization"]
    /\ client_ret' = run_colab_optimization(client_call.o)
    /\ UNCHANGED <<session_vars, grid_vars, results_vars, page_vars>>

CallCheckStatus ==
    /\ client_call.fn = "none"
    /\ client_call' = [client_call EXCEPT !.fn = "check_optimization_status"]
    /\ client_ret' = check_optimization_status(client_call.o)
    /\ UNCHANGED <<session_vars, grid_vars, results_vars, page_vars>>

CallGetResults ==
    /\ client_call.fn = "none"
    /\ client_call' = [client_call EXCEPT !.fn = "get_optimization_results"]
    /\ client_ret' = get_optimization_results(client_call.o)
    /\ UNCHANGED <<session_vars, grid_vars, results_vars, page_vars>>

CallUploadData ==
    /\ client_call.fn = "none"
    /\ client_call' = [client_call EXCEPT !.fn = "upload_data_to_colab"]
    /\ client_ret' = upload_data_to_colab(client_call.o)
    /\ UNCHANGED <<session_vars, grid_vars, results_vars, page_vars>>

NextClient ==
    \/ CallTestConnection
    \/ CallRunOptimization
    \/ CallCheckStatus
    \/ CallGetResults
    \/ CallUploadData

SpecClient == InitClient /\ [][NextClient]_vars

\* ------------------------------------------------------------------------
\* The Grid Builder in the script runs of a connected session with uploaded
\* data, for every value entered into the widgets
\* ------------------------------------------------------------------------
\* widest range of the (min, max) inputs and largest step entered
MaxSpan == 3
MaxStep == 3
\* smallest values the number inputs accept (lines 694, 700, 707)
PivotLow == 2
AtrFactorLow == 50
AtrPeriodLow == 5
PivotTriples ==
    {<<lo, hi, st>> : lo \in PivotLow .. PivotLow + MaxSpan,
                      hi \in PivotLow .. PivotLow + MaxSpan, st \in 1 .. MaxStep}
AtrFactorTriples ==
    {<<AtrFactorLow + 10 * lo, AtrFactorLow + 10 * hi, 10 * st>> :
        lo \in 0 .. MaxSpan, hi \in 0 .. MaxSpan, st \in 1 .. MaxStep}
AtrPeriodTriples ==
    {<<lo, hi, st>> : lo \in AtrPeriodLow .. AtrPeriodLow + MaxSpan,
                      hi \in AtrPeriodLow .. AtrPeriodLow + MaxSpan, st \in 1 .. MaxStep}
\* texts typed into the list inputs
RiskTexts == {DefaultWidgets.risk_values, <<"0.5", "abc">>, <<"">>}
CbTexts == {DefaultWidgets.cb_values, <<"0.03", "">>}
EmaTexts == {DefaultWidgets.ema_values, <<"30", "abc">>, <<"0.5">>}
AdxTexts == {DefaultWidgets.adx_values, <<"abc">>}

CustomDefaults == [DefaultWidgets EXCEPT !.approach = "Custom"]
\* the widget values of the runs: a preset, or Custom with one range or the
\* lists and checkboxes edited; a list input that is not rendered has its default
GridWidgets ==
    {[DefaultWidgets EXCEPT !.approach = a] : a \in Approaches}
    \cup {[CustomDefaults EXCEPT !.pivot = t] : t \in PivotTriples}
    \cup {[CustomDefaults EXCEPT !.atr_factor = t] : t \in AtrFactorTriples}
    \cup {[CustomDefaults EXCEPT !.atr_period = t] : t \in AtrPeriodTriples}
    \cup {[CustomDefaults EXCEPT !.use_xtrend = FALSE]}
    \cup {w \in {[CustomDefaults EXCEPT !.risk_values = r, !.cb_values = c,
                                         !.use_ema = e, !.ema_values = ev,
                                         !.use_adx = a, !.adx_values = av] :
                     r \in RiskTexts, c \in CbTexts, e \in BOOLEAN,
                     a \in BOOLEAN, ev \in EmaTexts, av \in AdxTexts} :
             /\ w.use_ema \/ w.ema_values = DefaultWidgets.ema_values
             /\ w.use_adx \/ w.adx_values = DefaultWidgets.adx_values}
\* the remote answers the probe; it acknowledges the submit or does not answer
GridPing == Json(Dict({}))
GridPostOutcomes == {Json(Dict({"message"})), Fail("timeout")}

\* the session after Connect, Add Asset and a successful upload
ConnectedSession ==
    /\ colab_url = "u1"
    /\ optimization_running = FALSE
    /\ optimization_results = None
    /\ optimization_config = NoConfig
    /\ data_uploaded = TRUE
    /\ selected_assets = <<"BTC-USD">>
    /\ remote_running = FALSE
    /\ log = <<>>
    /\ progress_shown = -1
    /\ last_status = None
    /\ job_open = FALSE
    /\ upload_succeeded = TRUE
    /\ client_call = [fn |-> "none", o |-> NoReply]
    /\ client_ret = Return(None)

InitGrid ==
    /\ ConnectedSession
    /\ widgets \in GridWidgets
    /\ built = Built([optimization_type |-> "None"])
    /\ summary = NoSummary
    /\ posted = <<>>
    /\ InitResultsVars
    /\ InitPageVars

\* what the optimization tab leaves of the config and the summary: an
\* exception raised while the config is built ends the script run
TabBuilds(w) ==
    LET b == FullConfig(w)
    IN  /\ built' = b
        /\ summary' = IF b.raised = "none"
                      THEN OptimizationSummary(w.approach, ApproachConfig(w).value)
                      ELSE NoSummary

\* another approach is selected (line 604): the script runs, no handler; the
\* custom inputs are rendered anew with their defaults
RunGridApproach ==
    /\ TabGate(colab_url, data_uploaded)
    /\ \E a \in Approaches \ {widgets.approach} :
        /\ CommitSession(Sidebar(Session("rerun"), GridPing))
        /\ widgets' = [DefaultWidgets EXCEPT !.approach = a]
        /\ TabBuilds(widgets')
        /\ posted' = <<>>
    /\ UNCHANGED <<client_vars, results_vars, page_vars>>

\* the script runs with the widgets as they are, no handler
RunGridRerun ==
    /\ TabGate(colab_url, data_uploaded)
    /\ CommitSession(Sidebar(Session("rerun"), GridPing))
    /\ TabBuilds(widgets)
    /\ posted' = <<>>
    /\ UNCHANGED <<widgets, client_vars, results_vars, page_vars>>

\* Start is clicked: the handler (line 818) runs if the config was built
RunGridStart ==
    /\ TabGate(colab_url, data_uploaded)
    /\ \E post \in GridPostOutcomes, b \in {FullConfig(widgets)} :
        \E in \in {In(post, "none", "no", NoReply, NoNested, FALSE)},
           config \in {ConfigRead(b.value)} :
            LET s == Sidebar(Session("click start"), GridPing)
            IN  IF b.raised # "none"
                THEN /\ CommitSession(s)
                     /\ posted' = <<>>
                ELSE /\ CommitSession(StartHandler(s, config, in))
                     /\ posted' = IF "POST /optimize" \in Events(log')
                                  THEN <<b.value>> ELSE <<>>
    /\ TabBuilds(widgets)
    /\ UNCHANGED <<widgets, client_vars, results_vars, page_vars>>

NextGrid ==
    \/ RunGridApproach
    \/ RunGridRerun
    \/ RunGridStart

SpecGrid == InitGrid /\ [][NextGrid]_vars

\* ------------------------------------------------------------------------
\* The results tab in the script runs of a connected session with uploaded
\* data: results arrive as the reply to a submit or are loaded manually
\* ------------------------------------------------------------------------
\* the per-asset records the remote sends; a record may be null
AssetA == AssetEntry("A", AssetData(1412, 17, 172, 40))
AssetAFewTrades == AssetEntry("A", AssetData(1412, 17, 172, 29))
AssetB == AssetEntry("B", AssetData(1412, 30, 100, 40))
AssetNull == AssetEntry("A", None)
AssetsSent ==
    {<<>>, <<AssetA>>, <<AssetA, AssetB>>, <<AssetB, AssetA>>,
     <<AssetAFewTrades, AssetB>>, <<AssetNull>>}
Reverse(seq) == [i \in 1 .. Len(seq) |-> seq[Len(seq) + 1 - i]]
\* the rankings record the remote derives from an asset record
RankOf(e) ==
    IF e.data = None THEN [asset |-> e.symbol]
    ELSE [asset |-> e.symbol, score |-> e.data.score,
          sharpe |-> e.data.metrics.sharpe_ratio,
          win_rate |-> e.data.metrics.win_rate]
RanksOf(assets) == [i \in 1 .. Len(assets) |-> RankOf(assets[i])]
\* the 'comparison' entries the remote sends with the assets: none, an
\* empty one, the rankings alone, the rankings with the three 'best' entries,
\* the rankings in either order, a rankings record without its numbers
ComparisonsSent(assets) ==
    {Dict({})}
    \cup UNION {{[rankings |-> r],
                 [rankings |-> r, best_by_score |-> b, best_by_sharpe |-> b,
                  best_by_win_rate |-> b]} :
                    r \in {RanksOf(assets), Reverse(RanksOf(assets))},
                    b \in {"B"}}
    \cup {[rankings |-> <<[asset |-> "A"]>>]}
PayloadsSent ==
    {Dict({"message"})}
    \cup {[assets |-> a] : a \in AssetsSent}
    \cup UNION {{[assets |-> a, comparison |-> c] : c \in ComparisonsSent(a)} :
                   a \in AssetsSent}
\* values of the 'Minimum Trades for Valid Result' input (line 792)
MinTradesInputs == {10, 30}

InitResults ==
    /\ ConnectedSession
    /\ InitGridVars
    /\ InitResultsVars
    /\ InitPageVars

\* the results tab is rendered at the end of the run
TabDisplays ==
    /\ view' = ResultsTab(optimization_results')
    /\ prev_view' = view
    /\ prev_results' = optimization_results

\* Start is clicked and the remote replies with a payload (line 858 stores it)
RunResultsStart ==
    /\ TabGate(colab_url, data_uploaded)
    /\ \E payload \in PayloadsSent, mt \in MinTradesInputs :
        \E in \in {In(Json(payload), "none", "no", NoReply, NoNested, FALSE)},
           config \in {BuildConfig("Standard 3-Step", DefaultWidgets.pivot)} :
            LET s == Sidebar(Session("click start"), GridPing)
            IN  /\ CommitSession(StartHandler(s, config, in))
                /\ min_trades' = IF "POST /optimize" \in Events(log') THEN mt
                                 ELSE min_trades
    /\ TabDisplays
    /\ UNCHANGED <<client_vars, grid_vars, page_vars>>

\* 'Load Manual Results' is clicked
RunResultsLoadManual ==
    /\ TabGate(colab_url, data_uploaded)
    /\ CommitSession(LoadManualHandler(Sidebar(Session("click load manual"), GridPing)))
    /\ TabDisplays
    /\ UNCHANGED <<min_trades, client_vars, grid_vars, page_vars>>

NextResults ==
    \/ RunResultsStart
    \/ RunResultsLoadManual

SpecResults == InitResults /\ [][NextResults]_vars

\* ------------------------------------------------------------------------
\* The rerun model of Streamlit: a click on a button of the page starts a
\* run of the script from the top, in which st.button returns True for the
\* clicked button only, and a button is on the page only if the last run
\* reached its st.button call
\* ------------------------------------------------------------------------
\* Check Progress and Get Results are created at lines 876 and 899, inside
\* the success branch of the block of 'if st.button(Start)' (line 818)
NestedButtons == {"check progress", "get results"}
ButtonsOnPage ==
    IF ~TabGate(colab_url, data_uploaded) THEN {}
    ELSE {"start", "reset"}
         \cup (IF "msg optimization started" \in Events(log) THEN NestedButtons
               ELSE {})

\* the inputs of a run in which only Start returns True
StartOnlyInputs(config) ==
    {in \in StartInputsOf[config] : in.nested = "none" /\ ~in.try_get}

InitStreamlit ==
    /\ ConnectedSession
    /\ InitGridVars
    /\ InitResultsVars
    /\ InitPageVars

Click ==
    /\ clicked = "none"
    /\ \E b \in ButtonsOnPage : clicked' = b
    /\ UNCHANGED <<session_vars, client_vars, grid_vars, results_vars,
                   uploaded_to, search_result>>

\* the run a click starts, lines 178-958: with Start returning False the
\* block of lines 819-958 is skipped, the nested st.button calls with it
ScriptRun ==
    /\ clicked # "none"
    /\ clicked' = "none"
    /\ \E ping \in PingOutcomes, ping2 \in PingOutcomes, config \in Configs :
        \E click \in {"click " \o clicked} :
            LET s == Sidebar(Session(click), ping)
            IN  IF ~TabGate(s.url, s.uploaded) THEN CommitSession(s)
                ELSE IF clicked = "reset" THEN CommitSession(ResetHandler(s, ping2))
                ELSE IF clicked = "start"
                THEN \E in \in StartOnlyInputs(config) :
                         CommitSession(StartHandler(s, config, in))
                ELSE CommitSession(s)
    /\ UNCHANGED <<client_vars, grid_vars, results_vars, uploaded_to, search_result>>

\* the connection is made again after it was lost
Reconnect ==
    /\ clicked = "none"
    /\ colab_url = NoUrl
    /\ \E url \in URLs :
        CommitSession(ConnectHandler(Session("click connect"), url, GridPing))
    /\ UNCHANGED <<client_vars, grid_vars, results_vars, page_vars>>

NextStreamlit ==
    \/ Click
    \/ ScriptRun
    \/ Reconnect

\* Streamlit starts the run of every click it receives
SpecStreamlit ==
    InitStreamlit /\ [][NextStreamlit]_vars /\ WF_vars(ScriptRun)

\* ------------------------------------------------------------------------
\* The session with the targets of the uploads recorded: uploaded_to holds
\* every URL a POST /upload_data was sent to
\* ------------------------------------------------------------------------
InitUpload ==
    /\ InitSession
    /\ InitGridVars
    /\ InitResultsVars
    /\ InitPageVars
    /\ client_call = [fn |-> "none", o |-> NoReply]
    /\ client_ret = Return(None)

\* 'Download & Send to Colab': the request goes to the URL of the session
RunUploadTo ==
    /\ colab_url # NoUrl
    /\ selected_assets # <<>>
    /\ \E downloaded \in BOOLEAN, ping \in PingOutcomes, o \in UploadOutcomes :
        \E s \in {UploadRun(downloaded, ping, o)} :
            /\ CommitSession(s)
            /\ uploaded_to' = IF "POST /upload_data" \in Events(s.log)
                              THEN uploaded_to \cup {colab_url}
                              ELSE uploaded_to
    /\ UNCHANGED <<clicked, search_result, client_vars, grid_vars, results_vars>>

\* 'Start 3-Step Optimization' with no nested click; the remote acknowledges
\* the submit or does not answer
RunSubmit ==
    /\ TabGate(colab_url, data_uploaded)
    /\ \E ping \in PingOutcomes, post \in GridPostOutcomes, config \in Configs :
        \E in \in {In(post, "none", "no", NoReply, NoNested, FALSE)} :
            LET s == Sidebar(Session("click start"), ping)
            IN  Commit(IF TabGate(s.url, s.uploaded)
                       THEN StartHandler(s, config, in) ELSE s)

NextUpload ==
    \/ RunRerun
    \/ RunConnect
    \/ RunAddAsset
    \/ RunRemoveAsset
    \/ RunUploadTo
    \/ RunReset
    \/ RunLoadManual
    \/ RunSubmit

SpecUpload == InitUpload /\ [][NextUpload]_vars

\* ------------------------------------------------------------------------
\* Asset selection (lines 340-439) with enough symbols to fill the list
\* ------------------------------------------------------------------------
PopularSymbols == {"BTC-USD", "ETH-USD", "GC=F", "AAPL"}
\* the variations yfinance may know: none, the query itself, query-USD
Verifiable == {0, 1, 2}

InitAssets ==
    /\ colab_url = "u1"
    /\ optimization_running = FALSE
    /\ optimization_results = None
    /\ optimization_config = NoConfig
    /\ data_uploaded = FALSE
    /\ selected_assets = <<>>
    /\ remote_running = FALSE
    /\ log = <<>>
    /\ progress_shown = -1
    /\ last_status = None
    /\ job_open = FALSE
    /\ upload_succeeded = FALSE
    /\ client_call = [fn |-> "none", o |-> NoReply]
    /\ client_ret = Return(None)
    /\ InitGridVars
    /\ InitResultsVars
    /\ InitPageVars

RunAddPopular ==
    \E symbol \in PopularSymbols :
        Commit(AddAssetHandler(Sidebar(Session("click add asset"), GridPing),
                               symbol, GridPing))

\* 'Search', lines 398-401
RunSearch ==
    /\ \E query \in Queries, found \in Verifiable :
        search_result' = search_ticker(query, found)
    /\ CommitSession(Sidebar(Session("click search"), GridPing))
    /\ UNCHANGED <<clicked, uploaded_to, client_vars, grid_vars, results_vars>>

RunAddCustom ==
    /\ search_result # NoSearch
    /\ Commit(AddCustomAssetHandler(Sidebar(Session("click add custom"), GridPing),
                                    search_result, GridPing))

RunRemove ==
    \E i \in 1 .. Len(selected_assets) :
        Commit(RemoveAssetHandler(Sidebar(Session("click remove asset"), GridPing),
                                  i, GridPing))

NextAssets ==
    \/ RunAddPopular
    \/ RunSearch
    \/ RunAddCustom
    \/ RunRemove

SpecAssets == InitAssets /\ [][NextAssets]_vars

\* ------------------------------------------------------------------------
\* Properties
\* ------------------------------------------------------------------------
PostSent(l) == "POST /optimize" \in Events(l)
StartInvoked(l) == "start handler" \in Events(l)
JobRequests == {"POST /optimize", "GET /status", "GET /results", "POST /upload_data"}

\* C1: a Start invoked while optimization_running is true is rejected as
\* 'already running', sends no POST /optimize and leaves the flag set
C1_RunningRejectsStart ==
    [][(optimization_running /\ StartInvoked(log'))
          => /\ "msg already running" \in Events(log')
             /\ ~PostSent(log')
             /\ optimization_running']_vars
C1_Witness ==
    /\ StartInvoked(log)
    /\ "msg already running" \in Events(log)
    /\ optimization_running

\* C2 (as claimed): while a job the client submitted is still running on the
\* remote and was neither observed ended nor reset, no POST /optimize is sent
C2_AtMostOneInFlight ==
    [][(job_open /\ remote_running) => ~PostSent(log')]_vars

\* C3 (as claimed): after a Start run whose POST /optimize timed out the job
\* state is Running and no 'failed to start' was reported
C3_TimeoutLeavesRunning ==
    ("POST timed out" \in Events(log))
        => /\ optimization_running
           /\ "msg failed to start" \notin Events(log)

\* C4 (as claimed): after a non-error submit reply the state is Running unless
\* the run observed the job's end (a reply or a fetch with per-asset data, a
\* poll that saw it ended), and the reply is stored as the results only if it
\* carries per-asset data
ObservedEnd(l) ==
    Events(l) \cap {"msg quick test complete", "msg optimization complete",
                    "msg results updated", "msg results retrieved",
                    "msg could not retrieve results"} # {}
C4_SubmitRunsAndStoresFinalOnly ==
    [][("msg optimization started" \in Events(log'))
          => /\ \/ optimization_running'
                \/ ObservedEnd(log')
                \/ HasAssets(optimization_results')
             /\ \/ optimization_results' = optimization_results
                \/ "assets" \in DOMAIN optimization_results']_vars

C7_ResetAlwaysIdle ==
    [][/\ ("msg flag reset" \in Events(log'))
            => /\ ~optimization_running'
               /\ Events(log') \cap JobRequests = {}
               /\ remote_running' = remote_running
       /\ ("msg flag reset" \in Events(log) /\ StartInvoked(log'))
            => "msg already running" \notin Events(log')]_vars
C7_Witness ==
    /\ "msg flag reset" \in Events(log)
    /\ ~optimization_running
    /\ remote_running

\* C8: no client function raises, whatever the exchange ends in; a timeout, a
\* refused connection and a non-200 status are reported as False, None or a
\* dict with 'error', and so is an undecodable body by every function that
\* decodes the body
FailureReport(v) == v = Bool(FALSE) \/ v = None \/ "error" \in DOMAIN v
TransportFailed(call) ==
    \/ call.o.kind \in {"timeout", "refused", "http500"}
    \/ call.o.kind = "garbage" /\ call.fn # "test_colab_connection"
C8_ClientNeverRaises ==
    (client_call.fn # "none")
        => /\ client_ret.raised = "none"
           /\ TransportFailed(client_call) => FailureReport(client_ret.value)
C8_Witness ==
    /\ client_call.fn = "run_colab_optimization"
    /\ client_call.o.kind = "garbage"
    /\ client_ret = Return(ErrorDict)

ConfigBuilt == built.raised = "none" /\ "min_trades" \in DOMAIN built.value
IsCustom(config) == config["optimization_type"] = "3_step_custom"
\* min + k * step for k = 0 .. floor((max - min) / step)
Expansion(t) == [k \in 1 .. ((t[2] - t[1]) \div t[3] + 1) |-> t[1] + (k - 1) * t[3]]
ValidTriple(t) == t[1] <= t[2] /\ t[3] > 0

\* C15 (as claimed): under the custom approach each of the three ranges built
\* from a valid (min, max, step) triple is min + k * step for
\* k = 0 .. floor((max - min) / step), the ATR factors in hundredths
C15_RangeExpansion ==
    (ConfigBuilt /\ IsCustom(built.value))
        => /\ ValidTriple(widgets.pivot)
                => built.value["pivot_periods"] = Expansion(widgets.pivot)
           /\ ValidTriple(widgets.atr_factor)
                => built.value["atr_factors"] = Expansion(widgets.atr_factor)
           /\ ValidTriple(widgets.atr_period)
                => built.value["atr_periods"] = Expansion(widgets.atr_period)

\* C16 (as claimed): with the quick approach the Optimization Summary shows
\* 1 core combination, 1 risk combination and 1 filter test
C16_QuickSummaryAllOne ==
    (ConfigBuilt /\ widgets.approach = "Quick Test")
        => summary = [core |-> "1", risk |-> "1", filter |-> "1"]

\* C17: with the standard approach the config has 5, 5 and 4 core candidates
\* and 4 and 6 risk candidates, the summary shows 100 core combinations, 24
\* risk combinations and 4 filter tests, and the filter set is a list of 4
\* combinations that all enable the trend filter
C17_StandardCounts ==
    (ConfigBuilt /\ widgets.approach = "Standard 3-Step")
        => LET c == built.value
               f == c["filter_combinations"]
           IN  /\ Len(c["pivot_periods"]) = 5
               /\ Len(c["atr_factors"]) = 5
               /\ Len(c["atr_periods"]) = 4
               /\ Len(c["risk_percents"]) = 4
               /\ Len(c["cb_buffer_pcts"]) = 6
               /\ summary = [core |-> "100", risk |-> "24", filter |-> "4"]
               /\ f.kind = "list"
               /\ Len(f.items) = 4
               /\ Cardinality({f.items[i] : i \in 1 .. Len(f.items)}) = 4
               /\ \A i \in 1 .. Len(f.items) : f.items[i].use_xtrend
C17_Witness ==
    /\ widgets.approach = "Standard 3-Step"
    /\ summary.core = "100"
    /\ posted # <<>>
    /\ posted[1]["filter_combinations"].kind = "list"

\* the entries of a config in which every SweepConfig field is set
CoreAndRiskKeys ==
    {"optimization_type", "pivot_periods", "atr_factors", "atr_periods",
     "risk_percents", "cb_buffer_pcts", "train_split", "walk_forward_windows",
     "min_trades", "optimization_metric"}
FilterFlagKeys == {"use_xtrend", "use_ema", "use_adx"}
\* C18 (as claimed): every custom config sent with POST /optimize has the core
\* and risk ranges, the settings, the filter flags (or the list of filter
\* combinations) and the sub-range of each enabled filter
C18_CustomPostedComplete ==
    \A i \in 1 .. Len(posted) :
        IsCustom(posted[i])
            => /\ CoreAndRiskKeys \subseteq DOMAIN posted[i]
               /\ \/ FilterFlagKeys \subseteq DOMAIN posted[i]
                  \/ "filter_combinations" \in DOMAIN posted[i]
               /\ widgets.use_ema => "ema_periods" \in DOMAIN posted[i]
               /\ widgets.use_adx => "adx_thresholds" \in DOMAIN posted[i]

\* the tokens of the typed lists that are no numbers
NonNumericTokens == {"abc", ""}
HasNonNumeric(tokens) == \E i \in 1 .. Len(tokens) : tokens[i] \in NonNumericTokens
\* a list input rendered under the custom approach holds a non-numeric token
MalformedList(w) ==
    /\ w.approach = "Custom"
    /\ \/ HasNonNumeric(w.risk_values)
       \/ HasNonNumeric(w.cb_values)
       \/ w.use_ema /\ HasNonNumeric(w.ema_values)
       \/ w.use_adx /\ HasNonNumeric(w.adx_values)
FilterEnabled(config, flag, checkbox) ==
    \/ flag \in DOMAIN config /\ config[flag]
    \/ /\ "filter_combinations" \in DOMAIN config
       /\ LET f == config["filter_combinations"]
          IN  f.kind = "str" \/ \E i \in 1 .. Len(f.items) : f.items[i][flag]
    \/ IsCustom(config) /\ checkbox
\* C20 (as claimed): a built config has 'ema_periods' only if the EMA filter
\* is enabled in it and 'adx_thresholds' only if the ADX filter is
C20_SubRangesOnlyIfEnabled ==
    ConfigBuilt
        => /\ "ema_periods" \in DOMAIN built.value
                => FilterEnabled(built.value, "use_ema", widgets.use_ema)
           /\ "adx_thresholds" \in DOMAIN built.value
                => FilterEnabled(built.value, "use_adx", widgets.use_adx)

\* the numeric range entries of a config
RangeKeys ==
    {"pivot_periods", "atr_factors", "atr_periods", "risk_percents", "cb_buffer_pcts"}
\* C21 (as claimed): every config sent with POST /optimize has a non-empty
\* candidate sequence for each numeric range, whatever (min, max, step) the
\* custom inputs hold
C21_PostedRangesNonEmpty ==
    \A i \in 1 .. Len(posted) :
        \A k \in RangeKeys : k \in DOMAIN posted[i] /\ Len(posted[i][k]) > 0

\* ------------------------------------------------------------------------
\* Properties of the Start handler's outcomes (Spec)
\* ------------------------------------------------------------------------
PostCount(l) == Cardinality({i \in 1 .. Len(l) : l[i] = "POST /optimize"})
\* C22: a run whose POST /optimize the remote answered with an 'error' entry
\* or a non-200 status shows the failure, sent that one POST and no other job
\* request, leaves the flag false and the job not open(ed), and leaves the
\* stored results as they were
C22_RemoteErrorSurfacedOnce ==
    [][ "remote error" \in Events(log') =>
          /\ "msg failed to start" \in Events(log')
          /\ PostCount(log') = 1
          /\ Events(log') \cap {"GET /status", "GET /results"} = {}
          /\ Events(log') \cap {"msg optimization started", "msg optimization complete",
                                "msg quick test complete"} = {}
          /\ ~optimization_running'
          /\ job_open' = job_open
          /\ optimization_results' = optimization_results ]_vars
\* a remote error answered a submission made while earlier results are stored
C22_Witness ==
    /\ "remote error" \in Events(log)
    /\ optimization_results # None

\* the status reply says the job has ended, in either dialect
ReportsEnded(status) ==
    \/ RunningIsFalse(status)
    \/ /\ "running" \notin DOMAIN status
       /\ Get(status, "status", "absent") = "complete"
StoredByFetch(l) ==
    Events(l) \cap {"msg results updated", "msg results retrieved",
                    "msg quick test complete", "msg results found"} # {}
\* C24 (as claimed): a remote payload is stored as optimization_results only
\* by a branch that took it from get_optimization_results, that is after
\* convert_numpy
C24_StoredResultsNormalized ==
    [][ (optimization_results' # optimization_results
         /\ "msg manual loaded" \notin Events(log'))
          => StoredByFetch(log') ]_vars

\* C25: a Start run that is not rejected and not interrupted ends with the
\* flag false; the flag turns true only in an interrupted run; and 'already
\* running' is reported only when the flag was true when the run began
C25_FlagTrueOnlyAfterInterrupt ==
    [][ /\ (StartInvoked(log') /\ "interrupted" \notin Events(log')
            /\ "msg already running" \notin Events(log'))
           => ~optimization_running'
        /\ (optimization_running' /\ ~optimization_running)
           => "interrupted" \in Events(log')
        /\ "msg already running" \in Events(log') => optimization_running ]_vars
\* a Start run went through the error branch to its end
C25_Witness ==
    /\ StartInvoked(log)
    /\ "msg failed to start" \in Events(log)
    /\ ~optimization_running
    /\ optimization_config # NoConfig

\* C27: a run of Reset leaves the stored results, the stored configuration,
\* data_uploaded and the selected assets as they were, and the URL too unless
\* the connection check of the script run found the connection lost
C27_ResetChangesOnlyFlag ==
    [][ "msg flag reset" \in Events(log') =>
          /\ ~optimization_running'
          /\ optimization_results' = optimization_results
          /\ optimization_config' = optimization_config
          /\ data_uploaded' = data_uploaded
          /\ selected_assets' = selected_assets
          /\ \/ colab_url' = colab_url
             \/ "msg connection lost" \in Events(log') /\ colab_url' = NoUrl ]_vars
\* Reset ran while results and a configuration were stored
C27_Witness ==
    /\ "msg flag reset" \in Events(log)
    /\ optimization_results # None
    /\ optimization_config # NoConfig
    /\ colab_url # NoUrl

\* ------------------------------------------------------------------------
\* Properties of the nested buttons (SpecStreamlit)
\* ------------------------------------------------------------------------
\* C26 (as claimed): a click on Check Progress is followed by a run of its
\* handler that sends GET /status, and a click on Get Results by a run of its
\* handler that sends GET /results
C26_NestedClickRunsHandler ==
    /\ (clicked = "check progress")
          ~> (/\ log # <<>>
              /\ Head(log) = "click check progress"
              /\ "GET /status" \in Events(log))
    /\ (clicked = "get results")
          ~> (/\ log # <<>>
              /\ Head(log) = "click get results"
              /\ "GET /results" \in Events(log))

\* ------------------------------------------------------------------------
\* Properties of data_uploaded (SpecUpload)
\* ------------------------------------------------------------------------
\* C28: no run clears data_uploaded once it is set, so with a URL connected
\* the gate of the optimization tab stays open
C28_UploadedNeverCleared ==
    [][ data_uploaded =>
          /\ data_uploaded'
          /\ colab_url' # NoUrl => TabGate(colab_url', data_uploaded') ]_vars
\* a config was submitted to a URL that no upload request was ever sent to
C28_Witness ==
    /\ data_uploaded
    /\ PostSent(log)
    /\ colab_url # NoUrl
    /\ colab_url \notin uploaded_to

\* ------------------------------------------------------------------------
\* Properties of the asset selection (SpecAssets)
\* ------------------------------------------------------------------------
NoDuplicates(seq) ==
    \A i, j \in 1 .. Len(seq) : seq[i] = seq[j] => i = j
AddClicks == {"click add asset", "click add custom"}
\* C29: before and after every run the list holds at most 5 entries with
\* distinct symbols; a run of an Add button appends one symbol that was not
\* in a list of fewer than 5, or leaves the list as it was
C29_AtMostFiveDistinct ==
    [][ /\ Len(selected_assets) <= 5 /\ NoDuplicates(selected_assets)
        /\ Len(selected_assets') <= 5 /\ NoDuplicates(selected_assets')
        /\ Head(log') \in AddClicks =>
              \/ selected_assets' = selected_assets
              \/ /\ Len(selected_assets) < 5
                 /\ \E sym \in PopularSymbols \cup {search_result} :
                       /\ sym \notin Events(selected_assets)
                       /\ selected_assets' = Append(selected_assets, sym)
        /\ Events(log') \cap {"msg maximum 5", "msg already selected"} # {}
              => selected_assets' = selected_assets ]_vars
\* both kinds of Add were refused: a sixth symbol at a full list, and a
\* symbol of the list
C29_Witness ==
    /\ Len(selected_assets) = 5
    /\ search_result \in Events(selected_assets)
    /\ search_result \notin PopularSymbols
    /\ "msg maximum 5" \in Events(log)

\* ------------------------------------------------------------------------
\* Properties of the results tab (SpecResults)
\* ------------------------------------------------------------------------
\* the results tab displayed a batch of per-asset results to its end
BatchDisplayed(v) == v.kind = "multi" /\ v.raised = "none"
StoredAssets == optimization_results["assets"]
\* ascending order of the symbols
SymbolOrder == <<"A", "B", "BTC-USD">>
SymbolIndex(sym) == CHOOSE i \in 1 .. Len(SymbolOrder) : SymbolOrder[i] = sym
\* e1 ranks before e2: higher score, then higher Sharpe ratio, then symbol
RanksBefore(e1, e2) ==
    \/ e1.data.score > e2.data.score
    \/ /\ e1.data.score = e2.data.score
       /\ \/ e1.data.metrics.sharpe_ratio > e2.data.metrics.sharpe_ratio
          \/ /\ e1.data.metrics.sharpe_ratio = e2.data.metrics.sharpe_ratio
             /\ SymbolIndex(e1.symbol) < SymbolIndex(e2.symbol)
\* the symbols of the assets in ranking order
LocalRanking(assets) ==
    CHOOSE r \in [1 .. Len(assets) -> {assets[i].symbol : i \in 1 .. Len(assets)}] :
        \E perm \in [1 .. Len(assets) -> 1 .. Len(assets)] :
            /\ \A i, j \in 1 .. Len(assets) : i # j => perm[i] # perm[j]
            /\ \A i \in 1 .. Len(assets) : r[i] = assets[perm[i]].symbol
            /\ \A i, j \in 1 .. Len(assets) :
                  i < j => RanksBefore(assets[perm[i]], assets[perm[j]])
AllValid(assets) ==
    \A i \in 1 .. Len(assets) :
        /\ assets[i].data # None
        /\ assets[i].data.metrics.total_trades >= min_trades

\* C11 (as claimed): the rankings table of a displayed batch, all of whose
\* assets are valid, lists the assets by descending score, then descending
\* Sharpe ratio, then ascending symbol, whatever the remote 'rankings' list is
C11_RankingsComputedLocally ==
    (BatchDisplayed(view) /\ view.table /\ AllValid(StoredAssets))
        => view.rankings = LocalRanking(StoredAssets)

\* C12 (as claimed): no asset whose total_trades is below the min_trades of
\* the submitted config is listed in the rankings table
C12_FewTradesNotRanked ==
    (BatchDisplayed(view) /\ view.table /\ min_trades >= 0)
        => \A i \in 1 .. Len(view.rankings), j \in 1 .. Len(StoredAssets) :
              (StoredAssets[j].symbol = view.rankings[i] /\ StoredAssets[j].data # None)
                  => StoredAssets[j].data.metrics.total_trades >= min_trades

\* the elements of a sequence
Elements(seq) == {seq[i] : i \in 1 .. Len(seq)}
\* two batches hold the same asset records, the same rankings records and
\* the same 'best' entries, in whatever order
SameRecords(p, q) ==
    /\ "assets" \in DOMAIN p /\ "assets" \in DOMAIN q
    /\ Elements(p["assets"]) = Elements(q["assets"])
    /\ Len(p["assets"]) = Len(q["assets"])
    /\ ("comparison" \in DOMAIN p) = ("comparison" \in DOMAIN q)
    /\ "comparison" \in DOMAIN p
          => /\ DOMAIN p["comparison"] = DOMAIN q["comparison"]
             /\ \A k \in DOMAIN p["comparison"] \ {"rankings"} :
                    p["comparison"][k] = q["comparison"][k]
             /\ "rankings" \in DOMAIN p["comparison"]
                  => Elements(p["comparison"]["rankings"])
                        = Elements(q["comparison"]["rankings"])
\* C13 (as claimed): two batches with the same records, displayed one after
\* the other, show the same rankings and the same three 'best' values
C13_RankingOrderIndependent ==
    (BatchDisplayed(view) /\ BatchDisplayed(prev_view)
        /\ SameRecords(prev_results, optimization_results))
        => /\ view.rankings = prev_view.rankings
           /\ view.best = prev_view.best

\* C14 (as claimed): displaying a batch never raises, and a batch with an
\* empty assets mapping shows empty rankings and the sentinel for the three
\* 'best' values
C14_EmptyOrMalformedNeverRaises ==
    (view.kind = "multi")
        => /\ view.raised = "none"
           /\ StoredAssets = <<>>
                => /\ view.rankings = <<>>
                   /\ view.best = <<"N/A", "N/A", "N/A">>

====
